---- MODULE Spec2Model ----
(***************************************************************************)
(* Omega-Code: the response-parsing and code-cleaning pipeline of          *)
(* src/coder.py (OmegaCoder), modelled function by function, the project   *)
(* assembler generate_project step by step, and the interactive loop of    *)
(* src/main.py (OmegaCLI.run_interactive) around it.                       *)
(*                                                                         *)
(* Texts are TLA+ strings, handled character by character with Len,        *)
(* SubSeq and \o.  The fence character U+0060 cannot be written inside a   *)
(* TLA+ string, so the character "~" stands for it everywhere (FENCE is    *)
(* three of them); "~" has no other use in any input.                      *)
(*                                                                         *)
(* Python values are tagged records [t, v]:                                *)
(*   str  v = the text            num  v = the literal as written          *)
(*   lit  v = true/false/null/... arr  v = sequence of values              *)
(*   obj  v = sequence of [k, x] members in insertion order (a dict)       *)
(***************************************************************************)
EXTENDS Integers, Sequences, FiniteSets, TLC

VARIABLES call, arg, lang, ret

\* the run of generate_project and of the interactive loop around it:
\*   pc                where control is (a label of coder.py or main.py)
\*   project_structure the parsed plan (coder.py:50)
\*   generated_files   the CodeFiles produced so far (coder.py:53,78)
\*   events            the calls of model.generate and of _save_file made by
\*                     the call, or by the current command of the loop, in
\*                     order
\*   disk              the output directory: path -> content
\*   raised            the exception that left generate_project, or that a
\*                     handler of the session caught for the current command;
\*                     "" if none
\*   printed           what the current command of the loop printed
\*   commands          how many commands the loop has read
VARIABLES pc, project_structure, generated_files, events, disk, raised, printed,
          commands

run == <<pc, project_structure, generated_files, events, disk, raised, printed,
         commands>>

vars == <<call, arg, lang, ret, pc, project_structure, generated_files, events,
          disk, raised, printed, commands>>

(***************************************************************************)
(* Bounds of the input spaces.                                             *)
(***************************************************************************)
\* number of segments (lines or fenced blocks) of a structure response
MaxSegs == 3

\* number of lines of a generated code text
MaxCodeLines == 3

\* number of lines of a text given to the repair heuristic
MaxFixLines == 3

\* number of lines of a source scanned for dependencies
MaxDepLines == 3

\* number of files of a structure plan
MaxPlanFiles == 2

\* number of commands an interactive session reads
MaxCommands == 2

(***************************************************************************)
(* Python str primitives.                                                  *)
(***************************************************************************)
Ch(s, i) == IF i >= 1 /\ i <= Len(s) THEN SubSeq(s, i, i) ELSE ""

\* s[i:] with a 1-based i
From(s, i) == SubSeq(s, i, Len(s))

\* s[i:].startswith(p)
HasAt(s, p, i) == i >= 1 /\ i + Len(p) - 1 <= Len(s) /\ SubSeq(s, i, i + Len(p) - 1) = p

startswith(s, p) == HasAt(s, p, 1)

endswith(s, p) == HasAt(s, p, Len(s) - Len(p) + 1)

Min(S) == CHOOSE m \in S : \A n \in S : m <= n

Max(S) == CHOOSE m \in S : \A n \in S : m >= n

\* s.find(p, i-1) + 1: the least position >= i where p occurs, 0 when none
find(s, p, i) ==
    LET hits == {k \in i..(Len(s) - Len(p) + 1) : HasAt(s, p, k)}
    IN  IF hits = {} THEN 0 ELSE Min(hits)

\* the greatest position <= i where the character c occurs, 0 when none
rfind(s, c, i) ==
    LET hits == {k \in 1..i : Ch(s, k) = c}
    IN  IF hits = {} THEN 0 ELSE Max(hits)

\* the characters str.strip(), str.rstrip() and the regex class \s remove
Whitespace == {" ", "\t", "\n", "\r", "\f"}

\* s.lstrip(chars): from the first character that is not in chars
lstripChars(s, chars) ==
    LET first == {k \in 1..Len(s) : Ch(s, k) \notin chars /\ \A m \in 1..(k - 1) : Ch(s, m) \in chars}
    IN  IF first = {} THEN "" ELSE From(s, CHOOSE k \in first : TRUE)

\* s.rstrip(chars): up to the last character that is not in chars
rstripChars(s, chars) ==
    LET last == {k \in 1..Len(s) : Ch(s, k) \notin chars /\ \A m \in (k + 1)..Len(s) : Ch(s, m) \in chars}
    IN  IF last = {} THEN "" ELSE SubSeq(s, 1, CHOOSE k \in last : TRUE)

stripChars(s, chars) == rstripChars(lstripChars(s, chars), chars)

strip(s) == stripChars(s, Whitespace)

rstrip(s) == rstripChars(s, Whitespace)

RECURSIVE split(_, _)
\* s.split(sep) for a one-character sep: always at least one piece
split(s, sep) ==
    LET p == find(s, sep, 1)
    IN  IF p = 0 THEN <<s>>
        ELSE <<SubSeq(s, 1, p - 1)>> \o split(From(s, p + 1), sep)

RECURSIVE join(_, _)
\* sep.join(parts)
join(parts, sep) ==
    IF Len(parts) = 0 THEN ""
    ELSE IF Len(parts) = 1 THEN parts[1]
    ELSE parts[1] \o sep \o join(Tail(parts), sep)

Upper == "ABCDEFGHIJKLMNOPQRSTUVWXYZ"

Lower == "abcdefghijklmnopqrstuvwxyz"

lowerCh(c) ==
    LET p == find(Upper, c, 1)
    IN  IF Len(c) = 1 /\ p > 0 THEN Ch(Lower, p) ELSE c

RECURSIVE lower(_)
\* s.lower() on ASCII text
lower(s) == IF Len(s) = 0 THEN "" ELSE lowerCh(Ch(s, 1)) \o lower(From(s, 2))

(***************************************************************************)
(* Python values.                                                          *)
(***************************************************************************)
Str(s) == [t |-> "str", v |-> s]

Num(s) == [t |-> "num", v |-> s]

Lit(s) == [t |-> "lit", v |-> s]

Arr(xs) == [t |-> "arr", v |-> xs]

Obj(ms) == [t |-> "obj", v |-> ms]

Member(key, val) == [k |-> key, x |-> val]

HasKey(o, key) == \E n \in 1..Len(o.v) : o.v[n].k = key

\* o[key], for a key the dict has
Get(o, key) == o.v[CHOOSE n \in 1..Len(o.v) : o.v[n].k = key].x

\* d[key] = val: a new key goes last, an old key keeps its place
Put(ms, key, val) ==
    IF \E n \in 1..Len(ms) : ms[n].k = key
    THEN [n \in 1..Len(ms) |-> IF ms[n].k = key THEN Member(key, val) ELSE ms[n]]
    ELSE Append(ms, Member(key, val))

(***************************************************************************)
(* json.loads (the standard decoder, strict mode), as far as the inputs    *)
(* use it: objects, arrays, strings with the one-character escapes,        *)
(* numbers, true/false/null/NaN/Infinity.  No input uses \b or \uXXXX.     *)
(* A parse step returns [ok, val, pos]; pos is the position after the      *)
(* value.                                                                  *)
(***************************************************************************)
JsonWs == {" ", "\t", "\n", "\r"}

Digits == {"0", "1", "2", "3", "4", "5", "6", "7", "8", "9"}

\* characters a JSON string may not hold unescaped
Control == {"\n", "\t", "\r", "\f"}

Fail == [ok |-> FALSE, val |-> Lit("null"), pos |-> 0]

Done(value, p) == [ok |-> TRUE, val |-> value, pos |-> p]

RECURSIVE SkipWs(_, _)
SkipWs(s, i) == IF Ch(s, i) \in JsonWs THEN SkipWs(s, i + 1) ELSE i

RECURSIVE ScanDigits(_, _)
ScanDigits(s, i) == IF Ch(s, i) \in Digits THEN ScanDigits(s, i + 1) ELSE i

Unescape(c) ==
    CASE c = "n" -> "\n"
      [] c = "t" -> "\t"
      [] c = "r" -> "\r"
      [] c = "f" -> "\f"
      [] OTHER -> c

RECURSIVE ParseString(_, _, _)
\* i is the position after the opening quote
ParseString(s, i, acc) ==
    LET c == Ch(s, i)
    IN  IF c = "" \/ c \in Control THEN Fail
        ELSE IF c = "\"" THEN Done(Str(acc), i + 1)
        ELSE IF c = "\\"
             THEN IF Ch(s, i + 1) \in {"\"", "\\", "/", "n", "t", "r", "f"}
                  THEN ParseString(s, i + 2, acc \o Unescape(Ch(s, i + 1)))
                  ELSE Fail
        ELSE ParseString(s, i + 1, acc \o c)

\* NUMBER_RE: (-?(?:0|[1-9]\d*))(\.\d+)?([eE][-+]?\d+)?
ParseNumber(s, i) ==
    LET j == IF Ch(s, i) = "-" THEN i + 1 ELSE i
        intEnd == IF Ch(s, j) = "0" THEN j + 1 ELSE ScanDigits(s, j)
        fracEnd == IF Ch(s, intEnd) = "." /\ Ch(s, intEnd + 1) \in Digits
                   THEN ScanDigits(s, intEnd + 1) ELSE intEnd
        k == IF Ch(s, fracEnd + 1) \in {"+", "-"} THEN fracEnd + 2 ELSE fracEnd + 1
        expEnd == IF Ch(s, fracEnd) \in {"e", "E"} /\ Ch(s, k) \in Digits
                  THEN ScanDigits(s, k) ELSE fracEnd
    IN  IF Ch(s, j) \in Digits THEN Done(Num(SubSeq(s, i, expEnd - 1)), expEnd) ELSE Fail

RECURSIVE ParseValue(_, _)
RECURSIVE ParseMembers(_, _, _)
RECURSIVE ParseElements(_, _, _)

\* the members of an object; i is at the quote opening the next key
ParseMembers(s, i, ms) ==
    IF Ch(s, i) # "\"" THEN Fail
    ELSE LET key == ParseString(s, i + 1, "")
         IN  IF ~key.ok THEN Fail
             ELSE LET colon == SkipWs(s, key.pos)
                  IN  IF Ch(s, colon) # ":" THEN Fail
                      ELSE LET val == ParseValue(s, SkipWs(s, colon + 1))
                           IN  IF ~val.ok THEN Fail
                               ELSE LET next == SkipWs(s, val.pos)
                                        ms2 == Put(ms, key.val.v, val.val)
                                    IN  IF Ch(s, next) = "}" THEN Done(Obj(ms2), next + 1)
                                        ELSE IF Ch(s, next) = ","
                                             THEN ParseMembers(s, SkipWs(s, next + 1), ms2)
                                        ELSE Fail

\* the elements of an array; i is at the start of the next element
ParseElements(s, i, xs) ==
    LET val == ParseValue(s, i)
    IN  IF ~val.ok THEN Fail
        ELSE LET next == SkipWs(s, val.pos)
                 xs2 == Append(xs, val.val)
             IN  IF Ch(s, next) = "]" THEN Done(Arr(xs2), next + 1)
                 ELSE IF Ch(s, next) = ","
                      THEN ParseElements(s, SkipWs(s, next + 1), xs2)
                 ELSE Fail

\* scan_once
ParseValue(s, i) ==
    LET c == Ch(s, i)
    IN  IF c = "\"" THEN ParseString(s, i + 1, "")
        ELSE IF c = "{"
             THEN LET j == SkipWs(s, i + 1)
                  IN  IF Ch(s, j) = "}" THEN Done(Obj(<<>>), j + 1)
                      ELSE ParseMembers(s, j, <<>>)
        ELSE IF c = "["
             THEN LET j == SkipWs(s, i + 1)
                  IN  IF Ch(s, j) = "]" THEN Done(Arr(<<>>), j + 1)
                      ELSE ParseElements(s, j, <<>>)
        ELSE IF HasAt(s, "null", i) THEN Done(Lit("null"), i + 4)
        ELSE IF HasAt(s, "true", i) THEN Done(Lit("true"), i + 4)
        ELSE IF HasAt(s, "false", i) THEN Done(Lit("false"), i + 5)
        ELSE IF ParseNumber(s, i).ok THEN ParseNumber(s, i)
        ELSE IF HasAt(s, "NaN", i) THEN Done(Lit("NaN"), i + 3)
        ELSE IF HasAt(s, "Infinity", i) THEN Done(Lit("Infinity"), i + 8)
        ELSE IF HasAt(s, "-Infinity", i) THEN Done(Lit("-Infinity"), i + 9)
        ELSE Fail

\* json.loads(s): [ok, val]; ok = FALSE stands for JSONDecodeError
JsonLoads(s) ==
    LET r == ParseValue(s, SkipWs(s, 1))
    IN  IF r.ok /\ SkipWs(s, r.pos) = Len(s) + 1 THEN r ELSE Fail

(***************************************************************************)
(* pathlib: Path(filename).suffix on a POSIX path.                         *)
(***************************************************************************)
\* the final component: empty and "." components do not count
PathName(filename) ==
    LET parts == SelectSeq(split(filename, "/"), LAMBDA c : c # "" /\ c # ".")
    IN  IF Len(parts) = 0 THEN "" ELSE parts[Len(parts)]

PathSuffix(filename) ==
    LET name == PathName(filename)
        i == rfind(name, ".", Len(name))
    IN  IF 1 < i /\ i < Len(name) THEN From(name, i) ELSE ""

(***************************************************************************)
(* OmegaCoder._detect_language                                             *)
(***************************************************************************)
extensions ==
    << <<".py", "python">>, <<".js", "javascript">>, <<".ts", "typescript">>,
       <<".jsx", "react">>, <<".tsx", "react-ts">>, <<".java", "java">>,
       <<".cpp", "cpp">>, <<".c", "c">>, <<".rs", "rust">>, <<".go", "go">>,
       <<".rb", "ruby">>, <<".php", "php">>, <<".html", "html">>,
       <<".css", "css">>, <<".md", "markdown">>, <<".json", "json">>,
       <<".yml", "yaml">>, <<".yaml", "yaml">>, <<".toml", "toml">>,
       <<".sh", "bash">>, <<".sql", "sql">> >>

detect_language(filename) ==
    LET ext == lower(PathSuffix(filename))
    IN  IF \E n \in 1..Len(extensions) : extensions[n][1] = ext
        THEN extensions[CHOOSE n \in 1..Len(extensions) : extensions[n][1] = ext][2]
        ELSE "text"

(***************************************************************************)
(* OmegaCoder._parse_structure_response                                    *)
(***************************************************************************)
FENCE == "~~~"

JsonOpen == FENCE \o "json\n"

JsonClose == "\n" \o FENCE

\* JsonMatch with a greedy group, (.*): the leftmost opening and the last
\* closing after it
JsonMatchGreedy(response) ==
    LET i == find(response, JsonOpen, 1)
        closings == {j \in (i + Len(JsonOpen))..Len(response) : HasAt(response, JsonClose, j)}
    IN  IF i > 0 /\ closings # {}
        THEN [found |-> TRUE, group |-> SubSeq(response, i + Len(JsonOpen), Max(closings) - 1)]
        ELSE [found |-> FALSE, group |-> ""]

\* re.search(r'FENCE json\n(.*?)\nFENCE', response, re.DOTALL):
\* the leftmost opening, then the nearest closing after it
JsonMatch(response) ==
    LET i == find(response, JsonOpen, 1)
        j == IF i = 0 THEN 0 ELSE find(response, JsonClose, i + Len(JsonOpen))
    IN  IF i > 0 /\ j > 0
        THEN [found |-> TRUE, group |-> SubSeq(response, i + Len(JsonOpen), j - 1)]
        ELSE [found |-> FALSE, group |-> ""]

SourceExts == {".py", ".js", ".ts", ".java", ".cpp", ".rs", ".go"}

IsSourceLine(line) == \E e \in SourceExts : endswith(line, e)

FileSpec(path, language) ==
    Obj(<<Member("path", Str(path)), Member("language", Str(language))>>)

Structure(name, files) ==
    Obj(<<Member("name", Str(name)), Member("files", Arr(files))>>)

RECURSIVE ManualFiles(_)
\* the fallback loop over the lines of the response
ManualFiles(lines) ==
    IF Len(lines) = 0 THEN <<>>
    ELSE LET line == strip(lines[1])
         IN  (IF IsSourceLine(line)
              THEN <<FileSpec(stripChars(line, {"-", " "}), detect_language(line))>>
              ELSE <<>>) \o ManualFiles(Tail(lines))

DefaultStructure ==
    Structure("project", <<FileSpec("main.py", "python"), FileSpec("README.md", "markdown")>>)

\* parse_structure_response without the except clause taking over: a fence
\* that does not parse is passed over and the lines are read instead
parse_structure_response_unguarded(response) ==
    LET m == JsonMatch(response)
    IN  IF m.found /\ JsonLoads(m.group).ok
        THEN JsonLoads(m.group).val
        ELSE Structure("project", ManualFiles(split(strip(response), "\n")))

parse_structure_response(response) ==
    LET m == JsonMatch(response)
    IN  IF m.found
        THEN IF JsonLoads(m.group).ok THEN JsonLoads(m.group).val ELSE DefaultStructure
        ELSE Structure("project", ManualFiles(split(strip(response), "\n")))

(***************************************************************************)
(* re.sub(pattern, '', s): the leftmost matches, one after the other,      *)
(* removed.  matchEnd[k] is the position after the match that starts at k, *)
(* 0 when the pattern does not match there.                                *)
(***************************************************************************)
RECURSIVE RemoveMatches(_, _, _)
RemoveMatches(s, i, matchEnd) ==
    LET starts == {k \in i..Len(s) : matchEnd[k] > 0}
    IN  IF starts = {} THEN From(s, i)
        ELSE LET k == Min(starts)
             IN  SubSeq(s, i, k - 1) \o RemoveMatches(s, matchEnd[k], matchEnd)

Letters == {Ch(Lower, n) : n \in 1..Len(Lower)}

\* the first position >= i whose character is not in chars
RunEnd(s, i, chars) ==
    CHOOSE m \in i..(Len(s) + 1) :
        Ch(s, m) \notin chars /\ \A n \in i..(m - 1) : Ch(s, n) \in chars

\* r'FENCE[a-z]*\n'
FenceOpenEnd(s, k) ==
    IF ~HasAt(s, FENCE, k) THEN 0
    ELSE LET stop == RunEnd(s, k + Len(FENCE), Letters)
         IN  IF Ch(s, stop) = "\n" THEN stop + 1 ELSE 0

\* code.replace(FENCE, '')
FenceEnd(s, k) == IF HasAt(s, FENCE, k) THEN k + Len(FENCE) ELSE 0

\* r'# Response:.*?\n' and r'// Response:.*?\n' with re.IGNORECASE; marker is
\* the lower-case literal
EchoEnd(s, k, marker) ==
    IF ~HasAt(s, Ch(marker, 1), k) \/ k + Len(marker) - 1 > Len(s) THEN 0
    ELSE IF lower(SubSeq(s, k, k + Len(marker) - 1)) # marker THEN 0
    ELSE LET nl == find(s, "\n", k + Len(marker))
         IN  IF nl = 0 THEN 0 ELSE nl + 1

RemoveFences(code) ==
    LET opened == RemoveMatches(code, 1, [k \in 1..Len(code) |-> FenceOpenEnd(code, k)])
    IN  RemoveMatches(opened, 1, [k \in 1..Len(opened) |-> FenceEnd(opened, k)])

RemoveEchoes(code) ==
    LET hashed == RemoveMatches(code, 1, [k \in 1..Len(code) |-> EchoEnd(code, k, "# response:")])
    IN  RemoveMatches(hashed, 1, [k \in 1..Len(hashed) |-> EchoEnd(hashed, k, "// response:")])

(***************************************************************************)
(* ast.parse, on the Python that the inputs are written in: one statement  *)
(* per line, indented with spaces, '#' comments, no brackets, strings or    *)
(* continuation lines.  A line is blank, a simple statement, the header of  *)
(* a block, or no statement at all; the blocks follow the tokenizer's       *)
(* indentation stack.                                                       *)
(***************************************************************************)
SimpleStatements == {"y = 1", "z()", "python"}

BlockHeaders == {"if x:"}

LineIndent(line) == Len(line) - Len(lstripChars(line, {" "}))

LineKind(line) ==
    LET hash == find(line, "#", 1)
        body == strip(IF hash > 0 THEN SubSeq(line, 1, hash - 1) ELSE line)
    IN  IF body = "" THEN "blank"
        ELSE IF body \in SimpleStatements THEN "simple"
        ELSE IF body \in BlockHeaders THEN "header"
        ELSE "bad"

RECURSIVE PyBlocks(_, _, _, _)
\* lines n.. parse, given the indentation stack and whether a block must open
PyBlocks(lines, n, stack, expect) ==
    IF n > Len(lines) THEN ~expect
    ELSE LET kind == LineKind(lines[n])
             col == LineIndent(lines[n])
         IN  IF kind = "blank" THEN PyBlocks(lines, n + 1, stack, expect)
             ELSE IF kind = "bad" THEN FALSE
             ELSE IF expect
                  THEN /\ col > stack[Len(stack)]
                       /\ PyBlocks(lines, n + 1, Append(stack, col), kind = "header")
             ELSE \E d \in 1..Len(stack) :
                      /\ stack[d] = col
                      /\ PyBlocks(lines, n + 1, SubSeq(stack, 1, d), kind = "header")

\* TRUE when ast.parse(code) returns, FALSE when it raises SyntaxError
PyParses(code) == PyBlocks(split(code, "\n"), 1, <<0>>, FALSE)

(***************************************************************************)
(* OmegaCoder._fix_python_syntax                                           *)
(***************************************************************************)
\* fix_python_syntax looking at the line before after it was trimmed
fix_python_syntax_trimmed_before(code) ==
    LET lines == split(code, "\n")
        fixed == [i \in 1..Len(lines) |->
                    LET line == rstrip(lines[i])
                    IN  IF /\ line # ""
                           /\ ~startswith(line, " ")
                           /\ ~startswith(line, "\t")
                           /\ i > 1
                           /\ endswith(rstrip(lines[i - 1]), ":")
                        THEN "    " \o line
                        ELSE line]
    IN  join(fixed, "\n")

fix_python_syntax(code) ==
    LET lines == split(code, "\n")
        fixed == [i \in 1..Len(lines) |->
                    LET line == rstrip(lines[i])
                    IN  IF /\ line # ""
                           /\ ~startswith(line, " ")
                           /\ ~startswith(line, "\t")
                           /\ i > 1
                           /\ endswith(lines[i - 1], ":")
                        THEN "    " \o line
                        ELSE line]
    IN  join(fixed, "\n")

(***************************************************************************)
(* OmegaCoder._clean_generated_code                                        *)
(***************************************************************************)
clean_generated_code(code, language) ==
    LET bare == RemoveEchoes(RemoveFences(code))
    IN  strip(IF language = "python" /\ ~PyParses(bare) THEN fix_python_syntax(bare) ELSE bare)

(***************************************************************************)
(* re.finditer(pattern, s): the groups of the leftmost matches, one after  *)
(* the other.  matchAt[k] = [end, group] for the match that starts at k;   *)
(* end is the position after the match, 0 when there is none.              *)
(***************************************************************************)
NoMatch == [end |-> 0, group |-> ""]

RECURSIVE FindGroups(_, _, _)
FindGroups(s, i, matchAt) ==
    LET starts == {k \in i..Len(s) : matchAt[k].end > 0}
    IN  IF starts = {} THEN <<>>
        ELSE LET k == Min(starts)
             IN  <<matchAt[k].group>> \o FindGroups(s, matchAt[k].end, matchAt)

\* the first position >= i that is past the text or whose character is in chars
RunEndNot(s, i, chars) ==
    CHOOSE m \in i..(Len(s) + 1) :
        (m = Len(s) + 1 \/ Ch(s, m) \in chars) /\ \A n \in i..(m - 1) : Ch(s, n) \notin chars

Quotes == {"'", "\""}

\* (\S+?)['"] followed by the literal tail, the group starting at g: the
\* last position of the shortest group, 0 when there is none
LazyGroupEnd(s, g, tail) ==
    LET stop == RunEndNot(s, g, Whitespace)
        ends == {e \in g..(stop - 1) : Ch(s, e + 1) \in Quotes /\ HasAt(s, tail, e + 2)}
    IN  IF ends = {} THEN 0 ELSE Min(ends)

\* r'^\s*(?:import|from)\s+(\S+)' with re.MULTILINE
PyImportAt(s, k) ==
    IF ~(k = 1 \/ Ch(s, k - 1) = "\n") THEN NoMatch
    ELSE LET word == RunEnd(s, k, Whitespace)
             after == IF HasAt(s, "import", word) THEN word + 6
                      ELSE IF HasAt(s, "from", word) THEN word + 4
                      ELSE 0
             x == RunEnd(s, after, Whitespace)
             stop == RunEndNot(s, x, Whitespace)
         IN  IF after > 0 /\ x > after /\ stop > x
             THEN [end |-> stop, group |-> SubSeq(s, x, stop - 1)]
             ELSE NoMatch

\* r"require\(['\"](\S+?)['\"]\)"
RequireAt(s, k) ==
    IF ~(HasAt(s, "require(", k) /\ Ch(s, k + 8) \in Quotes) THEN NoMatch
    ELSE LET e == LazyGroupEnd(s, k + 9, ")")
         IN  IF e = 0 THEN NoMatch ELSE [end |-> e + 3, group |-> SubSeq(s, k + 9, e)]

\* \s+['\"](\S+?)['\"] at position i
QuotedAfterSpace(s, i) ==
    LET q == RunEnd(s, i, Whitespace)
    IN  IF ~(q > i /\ Ch(s, q) \in Quotes) THEN NoMatch
        ELSE LET e == LazyGroupEnd(s, q + 1, "")
             IN  IF e = 0 THEN NoMatch ELSE [end |-> e + 2, group |-> SubSeq(s, q + 1, e)]

\* r"import.*from\s+['\"](\S+?)['\"]": .* is greedy and stays on the line
ImportFromAt(s, k) ==
    IF ~HasAt(s, "import", k) THEN NoMatch
    ELSE LET eol == RunEndNot(s, k + 6, {"\n"})
             froms == {f \in (k + 6)..(eol - 4) :
                          HasAt(s, "from", f) /\ QuotedAfterSpace(s, f + 4).end > 0}
         IN  IF froms = {} THEN NoMatch ELSE QuotedAfterSpace(s, Max(froms) + 4)

\* r"import\s+['\"](\S+?)['\"]"
ImportBareAt(s, k) ==
    IF ~HasAt(s, "import", k) THEN NoMatch ELSE QuotedAfterSpace(s, k + 6)

(***************************************************************************)
(* OmegaCoder._extract_dependencies                                        *)
(***************************************************************************)
Range(seq) == {seq[n] : n \in 1..Len(seq)}

RECURSIVE PyDependencies(_, _)
\* the loop over the matches of the python branch
PyDependencies(groups, dependencies) ==
    IF Len(groups) = 0 THEN dependencies
    ELSE LET dep == split(groups[1], ".")[1]
         IN  PyDependencies(Tail(groups),
                IF dep \notin Range(dependencies) /\ ~startswith(dep, "_")
                THEN Append(dependencies, dep)
                ELSE dependencies)

RECURSIVE JsDependencies(_, _)
\* the loop over the matches of one pattern of the javascript branch
JsDependencies(groups, dependencies) ==
    IF Len(groups) = 0 THEN dependencies
    ELSE LET dep == groups[1]
         IN  JsDependencies(Tail(groups),
                IF dep \notin Range(dependencies) /\ ~startswith(dep, ".")
                THEN Append(dependencies, split(dep, "/")[1])
                ELSE dependencies)

extract_dependencies(code, language) ==
    LET N == 1..Len(code)
    IN  IF language = "python"
        THEN PyDependencies(FindGroups(code, 1, [k \in N |-> PyImportAt(code, k)]), <<>>)
        ELSE IF language = "javascript"
        THEN LET required == JsDependencies(
                     FindGroups(code, 1, [k \in N |-> RequireAt(code, k)]), <<>>)
                 imported == JsDependencies(
                     FindGroups(code, 1, [k \in N |-> ImportFromAt(code, k)]), required)
             IN  JsDependencies(FindGroups(code, 1, [k \in N |-> ImportBareAt(code, k)]), imported)
        ELSE <<>>

(***************************************************************************)
(* Structure responses: up to MaxSegs segments, one per line, each a plain *)
(* line or a fenced block.                                                 *)
(***************************************************************************)
\* plans that match the schema of the structure prompt
PlanShop ==
    Structure("shop", <<FileSpec("app.py", "python"), FileSpec("web/ui.js", "javascript")>>)

PlanEmpty ==
    Obj(<<Member("name", Str("cli")), Member("description", Str("a tool")),
          Member("files", Arr(<<>>))>>)

Plans == {PlanShop, PlanEmpty}

EscapeCh(c) ==
    CASE c = "\"" -> "\\\""
      [] c = "\\" -> "\\\\"
      [] c = "\n" -> "\\n"
      [] c = "\t" -> "\\t"
      [] OTHER -> c

RECURSIVE Escape(_)
Escape(s) == IF Len(s) = 0 THEN "" ELSE EscapeCh(Ch(s, 1)) \o Escape(From(s, 2))

RECURSIVE Render(_, _)
RECURSIVE RenderAll(_, _)
\* the JSON text of a value, with the filler ws after every bracket and comma
Render(val, ws) ==
    CASE val.t = "str" -> "\"" \o Escape(val.v) \o "\""
      [] val.t \in {"num", "lit"} -> val.v
      [] val.t = "arr" ->
            IF Len(val.v) = 0 THEN "[]"
            ELSE "[" \o ws \o join(RenderAll(val.v, ws), "," \o ws) \o ws \o "]"
      [] val.t = "obj" ->
            IF Len(val.v) = 0 THEN "{}"
            ELSE "{" \o ws \o join(RenderAll(val.v, ws), "," \o ws) \o ws \o "}"

\* an array's elements or an object's members, rendered
RenderAll(xs, ws) ==
    [n \in 1..Len(xs) |->
        IF "k" \in DOMAIN xs[n]
        THEN "\"" \o Escape(xs[n].k) \o "\": " \o Render(xs[n].x, ws)
        ELSE Render(xs[n], ws)]

Block(content) == JsonOpen \o content \o JsonClose

\* the fenced blocks that hold a schema plan, each with the plan it holds
PlanBlocks ==
    { [plan |-> PlanShop, text |-> Block(Render(PlanShop, "\n  "))],
      [plan |-> PlanEmpty, text |-> Block(Render(PlanEmpty, ""))] }

\* fence contents that parse to something that is no plan
OffSchemaTexts == {"[]", "{\"name\": \"p\"}"}

\* fence contents that do not parse
MalformedTexts == {"{\"files\": [\n  // ...\n]}"}

PlainLines == {"src/app.py", " -- web/ui.js  ", "- .py", "Files:"}

Segments ==
    PlainLines
    \cup {b.text : b \in PlanBlocks}
    \cup {Block(c) : c \in OffSchemaTexts \cup MalformedTexts}
    \cup {JsonOpen \o "{}"}

Responses ==
    {join(segs, "\n") : segs \in UNION {[1..n -> Segments] : n \in 0..MaxSegs}}

(***************************************************************************)
(* Generated code: up to MaxCodeLines lines.                               *)
(***************************************************************************)
CodeLines ==
    {"if x:", "if x: ", "y = 1", "    y = 1", "", "# Response: ok",
     "y = 1 # Response: ok", "z() // RESPONSE: no", "~~~python", "~~~",
     "~~# Response: ok", "~"}

Codes ==
    {join(ls, "\n") : ls \in UNION {[1..n -> CodeLines] : n \in 0..MaxCodeLines}}

CodeLanguages == {"python", "javascript"}

(***************************************************************************)
(* Texts for the repair heuristic: up to MaxFixLines lines.                *)
(***************************************************************************)
FixLines == {"if x:", "if x: ", "y", "y  ", "  y", "\ty", "", "\r"}

FixCodes ==
    {join(ls, "\n") : ls \in UNION {[1..n -> FixLines] : n \in 0..MaxFixLines}}

(***************************************************************************)
(* Sources for the dependency scan: up to MaxDepLines lines.               *)
(***************************************************************************)
PyDepLines ==
    {"import os", "from collections import OrderedDict", "import _private",
     "from .mod import y", "    import os.path", "import", "x = 1"}

JsDepLines ==
    {"import './local'", "import React from 'react'", "const x = require('lodash/fp')",
     "import map from \"lodash/map\"", "const fs = require(\"fs\")"}

Sources(lines) ==
    {join(ls, "\n") : ls \in UNION {[1..n -> lines] : n \in 0..MaxDepLines}}

DepInputs ==
    ({"python", "text"} \X Sources(PyDepLines))
    \cup ({"javascript", "typescript"} \X Sources(JsDepLines))

(***************************************************************************)
(* OmegaCoder.generate_project (coder.py:34-94).  A subscript of a Python  *)
(* value gives [exc, val]: exc is "" or the class of the exception.        *)
(***************************************************************************)
CodeFile(filename, content, language, dependencies) ==
    [filename |-> filename, content |-> content, language |-> language,
     dependencies |-> dependencies]

\* value[key] for a text key
Subscript(value, key) ==
    IF value.t = "obj"
    THEN IF HasKey(value, key)
         THEN [exc |-> "", val |-> Get(value, key)]
         ELSE [exc |-> "KeyError", val |-> Lit("None")]
    ELSE [exc |-> "TypeError", val |-> Lit("None")]

\* value.get(key, default) of a dict
GetOr(value, key, default) == IF HasKey(value, key) THEN Get(value, key) ELSE default

\* the entries that 'for file_info in project_structure["files"]' walks
\* through (coder.py:54): a list gives its elements, a text its characters,
\* a dict its keys; nothing else can be iterated
StructureFiles(structure) ==
    LET files == Subscript(structure, "files")
    IN  IF files.exc # "" THEN [exc |-> files.exc, val |-> <<>>]
        ELSE CASE files.val.t = "arr" -> [exc |-> "", val |-> files.val.v]
               [] files.val.t = "str" ->
                     [exc |-> "",
                      val |-> [n \in 1..Len(files.val.v) |-> Str(Ch(files.val.v, n))]]
               [] files.val.t = "obj" ->
                     [exc |-> "",
                      val |-> [n \in 1..Len(files.val.v) |-> Str(files.val.v[n].k)]]
               [] OTHER -> [exc |-> "TypeError", val |-> <<>>]

\* a value where the code needs a text (a path, a language tag, a name)
Text(value) == IF value.t \in {"str", "num", "lit"} THEN value.v ELSE ""

\* the call of self.model.generate for the plan (n = 0) or for file n
Generate(of, n, path, ok) ==
    [op |-> "generate", of |-> of, n |-> n, path |-> path, ok |-> ok]

\* the call of self._save_file for plan file n or config file n
Save(of, n, path) == [op |-> "save", of |-> of, n |-> n, path |-> path, ok |-> TRUE]

\* _save_file: the content written to <output_dir>/<filename>, replacing what
\* was there
save_file(dir, code_file) ==
    [path \in DOMAIN dir \cup {code_file.filename} |->
        IF path = code_file.filename THEN code_file.content ELSE dir[path]]

RECURSIVE save_files(_, _)
save_files(dir, code_files) ==
    IF Len(code_files) = 0 THEN dir
    ELSE save_files(save_file(dir, Head(code_files)), Tail(code_files))

\* _generate_config_files: the README that names the project and repeats the
\* requirements (coder.py:314-323; its fixed lines are written without their
\* accents)
generate_config_files(structure, requirements) ==
    LET name == Text(GetOr(structure, "name", Str("Generated Project")))
        readme_content ==
            "# " \o name \o "\n\n## Descripcion\n"
            \o "Proyecto generado automaticamente por Omega-Code.\n\n"
            \o "## Requerimientos Originales\n" \o requirements \o "\n"
    IN  <<CodeFile("README.md", readme_content, "markdown", Arr(<<>>))>>

\* the dict that generate_project returns (coder.py:90-94)
Summary(structure, code_files) ==
    Obj(<<Member("project_name", GetOr(structure, "name", Str("generated_project"))),
          Member("files", Arr([n \in 1..Len(code_files) |-> Str(code_files[n].filename)])),
          Member("structure", structure)>>)

(***************************************************************************)
(* What the model collaborator answers: structure plans of up to           *)
(* MaxPlanFiles files, other structure responses, and generated code.      *)
(***************************************************************************)
PlanPaths == {"app.py", "README.md"}

PlanFileLists ==
    UNION {[1..n -> {FileSpec(path, detect_language(path)) : path \in PlanPaths}] :
              n \in 0..MaxPlanFiles}

\* a structure response and what makes it special:
\*   a fenced plan; a fence that does not parse (the default structure);
\*   a fenced list; a fenced object without 'files'; a fenced plan whose file
\*   has no 'language'; a plain line (the line heuristic)
StructureReplies ==
    {Block(Render(Structure("shop", files), "")) : files \in PlanFileLists}
    \cup {Block(c) : c \in MalformedTexts \cup OffSchemaTexts}
    \cup {Block("{\"files\": [{\"path\": \"app.py\"}]}"), "src/app.py"}

CodeReplies == {"y = 1", "~~~python\nif x:\ny = 1\n~~~"}

Requirements == {"a shop"}

(***************************************************************************)
(* The calls.                                                              *)
(***************************************************************************)
\* no project generation and no session is running
NoRun ==
    /\ pc = ""
    /\ project_structure = Obj(<<>>)
    /\ generated_files = <<>>
    /\ events = <<>>
    /\ disk = <<>>
    /\ raised = ""
    /\ printed = <<>>
    /\ commands = 0

InitParse ==
    /\ call = "_parse_structure_response"
    /\ arg \in Responses
    /\ lang = ""
    /\ ret = <<>>
    /\ NoRun

ParseStructureResponse ==
    /\ call = "_parse_structure_response"
    /\ ret = <<>>
    /\ ret' = <<parse_structure_response(arg)>>
    /\ UNCHANGED <<call, arg, lang>>
    /\ UNCHANGED run

SpecParse == InitParse /\ [][ParseStructureResponse]_vars

InitClean ==
    /\ call = "_clean_generated_code"
    /\ arg \in Codes
    /\ lang \in CodeLanguages
    /\ ret = <<>>
    /\ NoRun

CleanGeneratedCode ==
    /\ call = "_clean_generated_code"
    /\ ret = <<>>
    /\ ret' = <<clean_generated_code(arg, lang)>>
    /\ UNCHANGED <<call, arg, lang>>
    /\ UNCHANGED run

\* the cleaner run once more, on its own output
CleanAgain ==
    /\ call = "_clean_generated_code"
    /\ Len(ret) = 1
    /\ ret' = Append(ret, clean_generated_code(ret[1], lang))
    /\ UNCHANGED <<call, arg, lang>>
    /\ UNCHANGED run

SpecClean == InitClean /\ [][CleanGeneratedCode \/ CleanAgain]_vars

InitFix ==
    /\ call = "_fix_python_syntax"
    /\ arg \in FixCodes
    /\ lang = "python"
    /\ ret = <<>>
    /\ NoRun

FixPythonSyntax ==
    /\ call = "_fix_python_syntax"
    /\ ret = <<>>
    /\ ret' = <<fix_python_syntax(arg)>>
    /\ UNCHANGED <<call, arg, lang>>
    /\ UNCHANGED run

SpecFix == InitFix /\ [][FixPythonSyntax]_vars

InitDeps ==
    /\ call = "_extract_dependencies"
    /\ \E in \in DepInputs : lang = in[1] /\ arg = in[2]
    /\ ret = <<>>
    /\ NoRun

ExtractDependencies ==
    /\ call = "_extract_dependencies"
    /\ ret = <<>>
    /\ ret' = <<extract_dependencies(arg, lang)>>
    /\ UNCHANGED <<call, arg, lang>>
    /\ UNCHANGED run

SpecDeps == InitDeps /\ [][ExtractDependencies]_vars

(***************************************************************************)
(* generate_project, step by step.  It has no handler of its own: an       *)
(* exception leaves it.  Called by _create_project_interactive the         *)
(* exception is caught and printed there (main.py:140-141) and the session *)
(* goes on; called directly it reaches the caller.                         *)
(***************************************************************************)
\* where a session is after one of main.py's handlers caught exc
\* (main.py:107-111, 140-141)
AfterExceptionBreaks(exc) == "ended"

AfterException(exc) == IF exc = "KeyboardInterrupt" THEN "ended" ELSE "prompt"

Throw(exc) ==
    IF call = "run_interactive"
    THEN /\ pc' = AfterException(exc)
         /\ printed' = Append(printed, "Error generando proyecto: " \o exc)
         /\ raised' = exc
    ELSE /\ pc' = "raised"
         /\ raised' = exc
         /\ printed' = printed

Continue(label) ==
    /\ pc' = label
    /\ UNCHANGED <<raised, printed>>

\* called directly (main.py:184 hands it the content of a file, which may be
\* empty)
InitProject ==
    /\ call = "generate_project"
    /\ arg \in Requirements \cup {""}
    /\ lang = ""
    /\ ret = <<>>
    /\ pc = "plan"
    /\ project_structure = Obj(<<>>)
    /\ generated_files = <<>>
    /\ events = <<>>
    /\ disk = <<>>
    /\ raised = ""
    /\ printed = <<>>
    /\ commands = 0

\* coder.py:45-54: the plan is asked for, parsed, and its files taken
PlanStructure ==
    /\ pc = "plan"
    /\ \E structure_response \in StructureReplies :
          LET structure == parse_structure_response(structure_response)
              files == StructureFiles(structure)
          IN  /\ project_structure' = structure
              /\ events' = Append(events, Generate("structure", 0, "", TRUE))
              /\ IF files.exc # "" THEN Throw(files.exc) ELSE Continue("files")
    /\ UNCHANGED <<call, arg, lang, ret, generated_files, disk, commands>>

\* coder.py:49: the model collaborator fails on the structure prompt
PlanFails ==
    /\ pc = "plan"
    /\ events' = Append(events, Generate("structure", 0, "", FALSE))
    /\ Throw("RuntimeError")
    /\ UNCHANGED <<call, arg, lang, ret, project_structure, generated_files, disk,
                   commands>>

\* the plan file that the loop of coder.py:54 is at
NextFile == Len(generated_files) + 1

PlanFiles == StructureFiles(project_structure).val

\* one round of the loop that generates the file but leaves it unsaved
GenerateFileUnsaved ==
    /\ pc = "files"
    /\ NextFile <= Len(PlanFiles)
    /\ LET file_info == PlanFiles[NextFile]
           path == Subscript(file_info, "path")
           language == Subscript(file_info, "language")
       IN  /\ path.exc = "" /\ language.exc = ""
           /\ \E code \in CodeReplies :
                 LET cleaned_code == clean_generated_code(code, Text(language.val))
                     code_file == CodeFile(Text(path.val), cleaned_code, language.val,
                                           GetOr(file_info, "dependencies", Arr(<<>>)))
                 IN  /\ generated_files' = Append(generated_files, code_file)
                     /\ events' = Append(events,
                                         Generate("file", NextFile, Text(path.val), TRUE))
                     /\ disk' = disk
                     /\ Continue("files")
    /\ UNCHANGED <<call, arg, lang, ret, project_structure, commands>>

\* coder.py:54-81, one round of the loop with a model that answers
GenerateFile ==
    /\ pc = "files"
    /\ NextFile <= Len(PlanFiles)
    /\ LET file_info == PlanFiles[NextFile]
           path == Subscript(file_info, "path")
           language == Subscript(file_info, "language")
       IN  IF path.exc # ""
           THEN /\ Throw(path.exc)
                /\ UNCHANGED <<generated_files, events, disk>>
           ELSE \E code \in CodeReplies :
                  IF language.exc # ""
                  THEN /\ events' = Append(events,
                                           Generate("file", NextFile, Text(path.val), TRUE))
                       /\ Throw(language.exc)
                       /\ UNCHANGED <<generated_files, disk>>
                  ELSE LET cleaned_code == clean_generated_code(code, Text(language.val))
                           code_file == CodeFile(Text(path.val), cleaned_code, language.val,
                                                 GetOr(file_info, "dependencies", Arr(<<>>)))
                       IN  /\ generated_files' = Append(generated_files, code_file)
                           /\ events' = events \o
                                 <<Generate("file", NextFile, Text(path.val), TRUE),
                                   Save("file", NextFile, Text(path.val))>>
                           /\ disk' = save_file(disk, code_file)
                           /\ Continue("files")
    /\ UNCHANGED <<call, arg, lang, ret, project_structure, commands>>

\* a failing model call that the loop swallows, going on to the next file
FileFailsSkipped ==
    /\ pc = "files"
    /\ NextFile <= Len(PlanFiles)
    /\ LET path == Subscript(PlanFiles[NextFile], "path")
       IN  /\ path.exc = ""
           /\ events' = Append(events, Generate("file", NextFile, Text(path.val), FALSE))
           /\ generated_files' =
                 Append(generated_files, CodeFile(Text(path.val), "", Str("text"), Arr(<<>>)))
           /\ Continue("files")
    /\ UNCHANGED <<call, arg, lang, ret, project_structure, disk, commands>>

\* coder.py:65: the model collaborator fails on a file prompt (model.py:96-97)
FileFails ==
    /\ pc = "files"
    /\ NextFile <= Len(PlanFiles)
    /\ LET path == Subscript(PlanFiles[NextFile], "path")
       IN  /\ path.exc = ""
           /\ events' = Append(events, Generate("file", NextFile, Text(path.val), FALSE))
           /\ Throw("RuntimeError")
    /\ UNCHANGED <<call, arg, lang, ret, project_structure, generated_files, disk,
                   commands>>

\* coder.py:83-94 (and main.py:130-138 in a session): the config files are
\* made and saved, the summary returned
FinishProject ==
    /\ pc = "files"
    /\ NextFile > Len(PlanFiles)
    /\ LET config_files == generate_config_files(project_structure, arg)
       IN  /\ disk' = save_files(disk, config_files)
           /\ events' = events \o
                 [n \in 1..Len(config_files) |-> Save("config", n, config_files[n].filename)]
           /\ IF call = "run_interactive"
              THEN /\ pc' = "prompt"
                   /\ printed' = Append(printed, "PROYECTO GENERADO EXITOSAMENTE")
                   /\ ret' = ret
              ELSE /\ pc' = "returned"
                   /\ printed' = printed
                   /\ ret' = <<Summary(project_structure, generated_files \o config_files)>>
    /\ UNCHANGED <<call, arg, lang, project_structure, generated_files, raised, commands>>

SpecProject ==
    InitProject /\ [][PlanStructure \/ PlanFails \/ GenerateFile \/ FileFails
                      \/ FinishProject]_vars

(***************************************************************************)
(* OmegaCLI.run_interactive (main.py:57-111): one command per round.  The  *)
(* command 'project' enters generate_project above; the other commands are *)
(* done within their round.                                                *)
(***************************************************************************)
CommandLines == {"", " EXIT ", "quit", "salir", "project", "help", "a tool"}

ExitWords == {"exit", "quit", "salir"}

FileNames == {"", " app.py "}

Answers == {"s", "n"}

Bye == "Hasta luego"

IsRequirement(user_input) ==
    user_input # "" /\ lower(user_input) \notin ExitWords \cup {"project", "help"}

InitInteractive ==
    /\ call = "run_interactive"
    /\ arg = ""
    /\ lang = ""
    /\ ret = <<>>
    /\ pc = "prompt"
    /\ project_structure = Obj(<<>>)
    /\ generated_files = <<>>
    /\ events = <<>>
    /\ disk = <<>>
    /\ raised = ""
    /\ printed = <<>>
    /\ commands = 0

\* main.py:65-78: an empty line, an exit word or 'help'
\* a round starts: the locals of the calls of the round before are gone
NewRound ==
    /\ arg' = ""
    /\ project_structure' = Obj(<<>>)
    /\ generated_files' = <<>>

ReadCommand ==
    /\ call = "run_interactive"
    /\ pc = "prompt"
    /\ \E line \in CommandLines :
          LET user_input == strip(line)
          IN  \/ /\ user_input = ""
                 /\ commands < MaxCommands
                 /\ pc' = "prompt"
                 /\ printed' = <<>>
              \/ /\ lower(user_input) \in ExitWords
                 /\ pc' = "ended"
                 /\ printed' = <<Bye>>
              \/ /\ lower(user_input) = "help"
                 /\ commands < MaxCommands
                 /\ pc' = "prompt"
                 /\ printed' = <<"AYUDA DE OMEGA-CODE">>
    /\ raised' = ""
    /\ commands' = commands + 1
    /\ NewRound
    /\ events' = <<>>
    /\ UNCHANGED <<call, lang, ret, disk>>

\* main.py:65, 110-111: input() fails at the end of the input
EndOfInput ==
    /\ call = "run_interactive"
    /\ pc = "prompt"
    /\ commands < MaxCommands
    /\ raised' = "EOFError"
    /\ printed' = <<"Error: EOFError">>
    /\ pc' = AfterException("EOFError")
    /\ commands' = commands + 1
    /\ NewRound
    /\ events' = <<>>
    /\ UNCHANGED <<call, lang, ret, disk>>

\* main.py:74-75, 113-128: 'project' asks for the requirements and calls
\* generate_project
CreateProjectInteractive ==
    /\ call = "run_interactive"
    /\ pc = "prompt"
    /\ commands < MaxCommands
    /\ \E line \in CommandLines, requirements \in Requirements \cup {""} :
          /\ lower(strip(line)) = "project"
          /\ IF requirements = ""
             THEN /\ pc' = "prompt"
                  /\ printed' = <<"Se requiere descripcion del proyecto">>
             ELSE /\ pc' = "plan"
                  /\ printed' = <<"Generando proyecto...">>
          /\ arg' = requirements
    /\ project_structure' = Obj(<<>>)
    /\ generated_files' = <<>>
    /\ events' = <<>>
    /\ raised' = ""
    /\ commands' = commands + 1
    /\ UNCHANGED <<call, lang, ret, disk>>

\* main.py:80-105 with coder.py:96-131: a requirement for one file, the
\* model answering (the preview of main.py:99-105 only prints the content)
SingleFile ==
    /\ call = "run_interactive"
    /\ pc = "prompt"
    /\ commands < MaxCommands
    /\ \E line \in CommandLines, name \in FileNames :
          LET user_input == strip(line)
              filename == strip(name)
          IN  /\ IsRequirement(user_input)
              /\ IF filename = ""
                 THEN /\ printed' = <<"Se requiere nombre de archivo">>
                      /\ events' = <<>>
                      /\ disk' = disk
                 ELSE \E raw_code \in CodeReplies, save \in Answers :
                        LET language == detect_language(filename)
                            cleaned_code == clean_generated_code(raw_code, language)
                            dependencies == extract_dependencies(cleaned_code, language)
                            code_file ==
                                CodeFile(filename, cleaned_code, Str(language),
                                         Arr([n \in 1..Len(dependencies) |->
                                                 Str(dependencies[n])]))
                        IN  /\ printed' = <<"Archivo generado: " \o code_file.filename>>
                            /\ IF save = "s"
                               THEN /\ disk' = save_file(disk, code_file)
                                    /\ events' = <<Generate("single", 0, filename, TRUE),
                                                   Save("single", 0, filename)>>
                               ELSE /\ disk' = disk
                                    /\ events' = <<Generate("single", 0, filename, TRUE)>>
    /\ pc' = "prompt"
    /\ raised' = ""
    /\ commands' = commands + 1
    /\ NewRound
    /\ UNCHANGED <<call, lang, ret>>

\* main.py:88, 110-111: the model collaborator fails in generate_single_file
SingleFileFails ==
    /\ call = "run_interactive"
    /\ pc = "prompt"
    /\ commands < MaxCommands
    /\ \E line \in CommandLines, name \in FileNames :
          /\ IsRequirement(strip(line))
          /\ strip(name) # ""
          /\ events' = <<Generate("single", 0, strip(name), FALSE)>>
    /\ raised' = "RuntimeError"
    /\ printed' = <<"Error: RuntimeError">>
    /\ pc' = AfterException("RuntimeError")
    /\ commands' = commands + 1
    /\ NewRound
    /\ UNCHANGED <<call, lang, ret, disk>>

\* main.py:107-109: the user interrupts, at the prompt or during a
\* generation
Interrupt ==
    /\ call = "run_interactive"
    /\ pc \in {"prompt", "plan", "files"}
    /\ raised' = "KeyboardInterrupt"
    /\ printed' = Append(printed, "Interrumpido por usuario")
    /\ pc' = AfterException("KeyboardInterrupt")
    /\ UNCHANGED <<call, arg, lang, ret, project_structure, generated_files, events,
                   disk, commands>>

SpecInteractive ==
    InitInteractive /\ [][ReadCommand \/ EndOfInput \/ CreateProjectInteractive
                          \/ SingleFile \/ SingleFileFails \/ Interrupt
                          \/ PlanStructure \/ PlanFails \/ GenerateFile \/ FileFails
                          \/ FinishProject]_vars

Init == InitParse \/ InitClean \/ InitFix \/ InitDeps \/ InitProject \/ InitInteractive

Next ==
    \/ ParseStructureResponse
    \/ CleanGeneratedCode
    \/ CleanAgain
    \/ FixPythonSyntax
    \/ ExtractDependencies
    \/ PlanStructure
    \/ PlanFails
    \/ GenerateFile
    \/ FileFails
    \/ FinishProject
    \/ ReadCommand
    \/ EndOfInput
    \/ CreateProjectInteractive
    \/ SingleFile
    \/ SingleFileFails
    \/ Interrupt

Spec == Init /\ [][Next]_vars

(***************************************************************************)
(* Claims about _parse_structure_response (checked under SpecParse).       *)
(***************************************************************************)
Returned(f) == call = f /\ Len(ret) >= 1

\* what generate_project needs: a dict with a text 'name' and a list 'files'
\* of dicts that each have 'path' and 'language'
ValidStructure(r) ==
    /\ r.t = "obj"
    /\ HasKey(r, "name") /\ Get(r, "name").t = "str"
    /\ HasKey(r, "files") /\ Get(r, "files").t = "arr"
    /\ \A n \in 1..Len(Get(r, "files").v) :
          LET f == Get(r, "files").v[n]
          IN  f.t = "obj" /\ HasKey(f, "path") /\ HasKey(f, "language")

\* the places where the text p occurs in s
Occurrences(s, p) == {i \in 1..Len(s) : HasAt(s, p, i)}

\* a json-labelled fence is detected: an opening with a closing after it
FenceDetected(s) ==
    \E i \in Occurrences(s, JsonOpen) :
        \E j \in Occurrences(s, JsonClose) : j >= i + Len(JsonOpen)

\* the content of the detected fence: from the first opening to the nearest
\* closing after it
FenceContent(s) ==
    LET i == Min(Occurrences(s, JsonOpen))
        j == Min({k \in Occurrences(s, JsonClose) : k >= i + Len(JsonOpen)})
    IN  SubSeq(s, i + Len(JsonOpen), j - 1)

\* C1: for every raw response, _parse_structure_response returns a valid
\* ProjectStructure (a mapping with a text 'name' and a 'files' list whose
\* entries carry 'path' and 'language'), also when the fenced block parses
\* to a list, a string, a number or an object without 'files'.
C1_ReturnsValidStructure ==
    Returned("_parse_structure_response") => ValidStructure(ret[1])

\* C2 (as claimed): whenever the response contains, anywhere, a well-formed
\* json fence holding a plan that matches the schema, the result is exactly
\* that plan, whatever surrounds the block.
C2_AnyPlanBlockIsReturned ==
    Returned("_parse_structure_response") =>
        \A b \in PlanBlocks : Occurrences(arg, b.text) # {} => ret[1] = b.plan

\* C2 (amended): when the well-formed json fence holding a schema plan
\* opens at the first json fence opening of the response, the result is
\* exactly that plan, whatever lines surround the block.
C2_FirstPlanBlockIsReturned ==
    Returned("_parse_structure_response") =>
        \A b \in PlanBlocks :
            (/\ Occurrences(arg, b.text) # {}
             /\ Min(Occurrences(arg, b.text)) = Min(Occurrences(arg, JsonOpen)))
            => ret[1] = b.plan

\* C2 witness: a plan block between two lines that name source files, and
\* the plan came back
C2_Witness ==
    /\ Returned("_parse_structure_response")
    /\ arg = "src/app.py\n" \o Block(Render(PlanShop, "\n  ")) \o "\n- .py"
    /\ ret[1] = PlanShop

\* C3: when a json fence is detected and its content does not parse as
\* JSON, the result is the fixed default structure: 'project' with main.py
\* (python) and README.md (markdown), in that order; the line heuristic is
\* not used.
C3_MalformedFenceGivesDefault ==
    (/\ Returned("_parse_structure_response")
     /\ FenceDetected(arg)
     /\ ~JsonLoads(FenceContent(arg)).ok)
    => /\ ret[1] = DefaultStructure
       /\ Get(ret[1], "name") = Str("project")
       /\ [n \in 1..2 |-> Get(Get(ret[1], "files").v[n], "path").v] = <<"main.py", "README.md">>
       /\ [n \in 1..2 |-> Get(Get(ret[1], "files").v[n], "language").v] = <<"python", "markdown">>

\* C3 witness: a fence whose content is no JSON, followed by a line that the
\* heuristic would have taken as a file, and the default came back
C3_Witness ==
    /\ Returned("_parse_structure_response")
    /\ arg = Block("{\"files\": [\n  // ...\n]}") \o "\nsrc/app.py"
    /\ ret[1] = DefaultStructure

RECURSIVE ExpectedFiles(_)
\* one FileSpec per trimmed line ending in a source extension, the path
\* without its list marker, the language the detector gives for that path
ExpectedFiles(lines) ==
    IF Len(lines) = 0 THEN <<>>
    ELSE LET path == stripChars(strip(lines[1]), {"-", " "})
         IN  (IF IsSourceLine(strip(lines[1]))
              THEN <<FileSpec(path, detect_language(path))>>
              ELSE <<>>) \o ExpectedFiles(Tail(lines))

\* C4: with no json fence in the response, the result is named 'project'
\* and its files are one FileSpec per trimmed line ending in .py/.js/.ts/
\* .java/.cpp/.rs/.go, in line order, the list marker stripped from the
\* path, the language being the detector's answer for the recorded path.
C4_HeuristicMatchesDetector ==
    (Returned("_parse_structure_response") /\ ~FenceDetected(arg))
    => ret[1] = Structure("project", ExpectedFiles(split(strip(arg), "\n")))

(***************************************************************************)
(* Claims about _clean_generated_code (checked under SpecClean).           *)
(***************************************************************************)
EchoMarkers == {"# response:", "// response:"}

\* the text p occurs in s, whatever the case of the letters of s
OccursNoCase(s, p) ==
    \E k \in 1..(Len(s) - Len(p) + 1) : lower(SubSeq(s, k, k + Len(p) - 1)) = p

\* already clean: no fence and no prompt echo anywhere in the text
AlreadyClean(s) ==
    /\ Occurrences(s, FENCE) = {}
    /\ \A marker \in EchoMarkers : ~OccursNoCase(s, marker)

\* C5: on a text with no code fence and no prompt-echo line, and for every
\* language tag, cleaning twice gives what cleaning once gives, also for
\* the python tag when the text does not parse and the repair runs on each
\* pass.
C5_CleanIsIdempotent ==
    (call = "_clean_generated_code" /\ Len(ret) = 2 /\ AlreadyClean(arg))
    => ret[2] = ret[1]

\* a prompt-echo line: '#' or '//', then ' Response:', at the line start
IsEchoLine(line) == \E marker \in EchoMarkers : lower(SubSeq(line, 1, Min({Len(line), Len(marker)}))) = marker

\* the text without its prompt-echo lines, every other line as it was
WithoutEchoLines(s) ==
    join(SelectSeq(split(s, "\n"), LAMBDA line : ~IsEchoLine(line)), "\n")

\* C10: the prompt-echo step removes exactly the lines that begin with
\* '# Response:' or '// Response:' (any case), the last line without a
\* newline included, and leaves every other line whole: seen on fence-free
\* text under a tag that is not repaired, the result is the text without
\* its echo lines, trimmed at both ends.
C10_ExactlyEchoLinesRemoved ==
    (Returned("_clean_generated_code") /\ lang # "python" /\ Occurrences(arg, FENCE) = {})
    => ret[1] = strip(WithoutEchoLines(arg))

(***************************************************************************)
(* Claims about _fix_python_syntax (checked under SpecFix).                *)
(***************************************************************************)
\* the line gets the four-space indent
Indented(line, i, lines) ==
    /\ line # ""
    /\ ~startswith(line, " ")
    /\ ~startswith(line, "\t")
    /\ i > 1
    /\ endswith(lines[i - 1], ":")

\* C9 (as claimed): the repair keeps the number and order of the lines and
\* changes a line only by putting four spaces before it, exactly when the
\* line is not empty, does not start with a space or tab and the original
\* line before it ends with ':'; every other line is returned unchanged,
\* trailing whitespace included.
C9_LinesOnlyIndented ==
    Returned("_fix_python_syntax") =>
        LET in == split(arg, "\n")
            out == split(ret[1], "\n")
        IN  /\ Len(out) = Len(in)
            /\ \A i \in 1..Len(in) :
                  out[i] = IF Indented(in[i], i, in) THEN "    " \o in[i] ELSE in[i]

\* C9 (amended): the repair keeps the number and order of the lines; every
\* line loses its trailing whitespace, and the trimmed line gets four
\* spaces before it exactly when it is not empty, does not start with a
\* space or tab and the original, untrimmed line before it ends with ':'.
\* So a text in which no line follows a line ending in ':' comes back with
\* only the trailing whitespace of its lines removed.
C9_LinesTrimmedThenIndented ==
    Returned("_fix_python_syntax") =>
        LET in == split(arg, "\n")
            out == split(ret[1], "\n")
        IN  /\ Len(out) = Len(in)
            /\ \A i \in 1..Len(in) :
                  out[i] = IF Indented(rstrip(in[i]), i, in)
                           THEN "    " \o rstrip(in[i])
                           ELSE rstrip(in[i])
            /\ (\A i \in 2..Len(in) : ~endswith(in[i - 1], ":"))
               => ret[1] = join([i \in 1..Len(in) |-> rstrip(in[i])], "\n")

\* C9 witness: a line with trailing whitespace, a block header, and a line
\* that got the indent
C9_Witness ==
    /\ Returned("_fix_python_syntax")
    /\ arg = "y  \nif x:\ny"
    /\ ret[1] = "y\nif x:\n    y"

(***************************************************************************)
(* Claims about _extract_dependencies (checked under SpecDeps).            *)
(***************************************************************************)
\* C6: the dependencies hold no entry twice and no entry that comes from a
\* relative import: sub-paths of one package give the package once, and a
\* relative python import gives nothing, not even an empty name.
C6_UniqueAndNotRelative ==
    Returned("_extract_dependencies") =>
        /\ \A m \in 1..Len(ret[1]) : \A n \in 1..Len(ret[1]) :
              ret[1][m] = ret[1][n] => m = n
        /\ \A n \in 1..Len(ret[1]) : ret[1][n] # "" /\ ~startswith(ret[1][n], ".")

\* every import of a javascript source, with the place where it starts
JsImports(code) ==
    {[at |-> k, x |-> RequireAt(code, k).group] : k \in {n \in 1..Len(code) : RequireAt(code, n).end > 0}}
    \cup {[at |-> k, x |-> ImportFromAt(code, k).group] : k \in {n \in 1..Len(code) : ImportFromAt(code, n).end > 0}}
    \cup {[at |-> k, x |-> ImportBareAt(code, k).group] : k \in {n \in 1..Len(code) : ImportBareAt(code, n).end > 0}}

RECURSIVE InTextOrder(_)
\* the imported paths in the order of their places in the text
InTextOrder(imports) ==
    IF imports = {} THEN <<>>
    ELSE LET first == CHOOSE i \in imports : \A j \in imports : i.at <= j.at
         IN  <<first.x>> \o InTextOrder(imports \ {first})

RECURSIVE FirstSegments(_, _, _)
\* the first sep-separated segment of every path that does not start with one
\* of the skipped characters, each name once, at its first place
FirstSegments(paths, sep, skipped) ==
    IF Len(paths) = 0 THEN <<>>
    ELSE LET rest == FirstSegments(SubSeq(paths, 1, Len(paths) - 1), sep, skipped)
             name == split(paths[Len(paths)], sep)[1]
         IN  IF Ch(paths[Len(paths)], 1) \in skipped \/ name \in Range(rest)
             THEN rest
             ELSE Append(rest, name)

\* C7: for the javascript tag the names come in the order of their first
\* occurrence in the source, whichever of the three patterns matched them,
\* each path cut to its first '/' segment and paths starting with '.' left
\* out: import './local', import React from 'react', require('lodash/fp')
\* give react, lodash.
C7_JsFirstOccurrenceOrder ==
    (Returned("_extract_dependencies") /\ lang = "javascript")
    => ret[1] = FirstSegments(InTextOrder(JsImports(arg)), "/", {"."})

Blanks == {" ", "\t", "\r", "\f"}

\* the X of a line of the form 'import X' or 'from X import ...', leading
\* whitespace allowed; "" when the line has no such form
ImportedBy(line) ==
    LET body == lstripChars(line, Blanks)
        word == IF startswith(body, "import") THEN "import"
                ELSE IF startswith(body, "from") THEN "from"
                ELSE ""
        x == RunEnd(body, Len(word) + 1, Blanks)
        stop == RunEndNot(body, x, Blanks)
        more == RunEnd(body, stop, Blanks)
    IN  IF word = "" \/ x = Len(word) + 1 THEN ""
        ELSE IF word = "from" /\ ~(more > stop /\ HasAt(body, "import", more)) THEN ""
        ELSE SubSeq(body, x, stop - 1)

\* the X of every import line of a python source, in line order
PyImportLines(code) ==
    LET xs == [n \in 1..Len(split(code, "\n")) |-> ImportedBy(split(code, "\n")[n])]
    IN  SelectSeq(xs, LAMBDA x : x # "")

\* C8: for the python tag the result is, in first-occurrence order and
\* without duplicates, the first dot-separated segment of X for every line
\* of the form 'import X' or 'from X import ...', names starting with an
\* underscore left out; for every tag other than python and javascript the
\* result is empty.
C8_PyImportLines ==
    Returned("_extract_dependencies") =>
        /\ lang = "python" => ret[1] = FirstSegments(PyImportLines(arg), ".", {"_"})
        /\ lang \notin {"python", "javascript"} => ret[1] = <<>>

(***************************************************************************)
(* Claims about generate_project (checked under SpecProject).              *)
(***************************************************************************)
\* the places in events of the model calls and of the writes
ModelCalls == {k \in 1..Len(events) : events[k].op = "generate"}

Writes == {k \in 1..Len(events) : events[k].op = "save"}

\* the path of plan file n
PlanPath(n) == Text(Subscript(PlanFiles[n], "path").val)

\* before place k, plan file n was written
WrittenBefore(n, k) ==
    \E j \in Writes : j < k /\ events[j] = Save("file", n, PlanPath(n))

\* C11: in generate_project the files are handled in the order of the plan
\* and written as they go: the model call for file i comes after file i-1
\* was persisted (so file i is persisted before the call for file i+1), the
\* config files are persisted only after all plan files, the structure call
\* precedes every per-file call, and a finished run made exactly 1 + N model
\* calls for a plan of N files.
C11_WrittenAsGenerated ==
    call = "generate_project" =>
       /\ \A k \in ModelCalls :
             IF events[k].of = "structure"
             THEN k = 1
             ELSE /\ k > 1
                  /\ events[k].n \in 1..Len(PlanFiles)
                  /\ events[k].path = PlanPath(events[k].n)
                  /\ \A m \in 1..(events[k].n - 1) : WrittenBefore(m, k)
                  /\ \A j \in ModelCalls : j < k => events[j].n < events[k].n
       /\ \A k \in Writes :
             events[k].of = "config" =>
                \A m \in 1..Len(PlanFiles) : WrittenBefore(m, k)
       /\ pc = "returned" =>
             /\ Cardinality(ModelCalls) = 1 + Len(PlanFiles)
             /\ \E k \in Writes : events[k].of = "config"

\* a finished run over a plan of two files or more
C11_Witness ==
    /\ call = "generate_project"
    /\ pc = "returned"
    /\ Len(PlanFiles) >= 2
    /\ Cardinality(ModelCalls) >= 3

\* the model calls that failed
FailedCalls == {k \in ModelCalls : ~events[k].ok}

\* C12: when the model fails on the call for plan file k, the failure leaves
\* generate_project uncaught; exactly the plan files before k were written,
\* no later plan file and no config file; no model call follows; no summary
\* is returned.
C12_FileFailurePropagates ==
    call = "generate_project" =>
       \A k \in FailedCalls :
          events[k].of = "file" =>
             LET before == 1..(events[k].n - 1)
             IN  /\ pc = "raised"
                 /\ raised = "RuntimeError"
                 /\ ret = <<>>
                 /\ k = Len(events)
                 /\ {events[j] : j \in Writes} = {Save("file", m, PlanPath(m)) : m \in before}
                 /\ DOMAIN disk = {PlanPath(m) : m \in before}
                 /\ \A m \in before : disk[PlanPath(m)] = generated_files[m].content
                       \/ \E later \in before : later > m /\ PlanPath(later) = PlanPath(m)

\* the model failed on the second file of a plan, the first being on disk
C12_Witness ==
    /\ call = "generate_project"
    /\ pc = "raised"
    /\ \E k \in FailedCalls : events[k].of = "file" /\ events[k].n = 2
    /\ DOMAIN disk # {}

\* C13: when every model call succeeds and the plan has N files,
\* generate_project persists N plan files plus at least one auxiliary
\* document, the summary's 'files' has as many entries as files were written
\* (also when an auxiliary file has the path of a plan file), its 'structure'
\* is the plan used and its 'project_name' the plan's name.
C13_SummaryCountsFilesWritten ==
    (call = "generate_project" /\ pc = "returned") =>
       LET summary == ret[1]
       IN  /\ Cardinality(DOMAIN disk) >= Len(PlanFiles) + 1
           /\ Len(Get(summary, "files").v) = Cardinality(DOMAIN disk)
           /\ Get(summary, "structure") = project_structure
           /\ HasKey(project_structure, "name") =>
                 Get(summary, "project_name") = Get(project_structure, "name")

(***************************************************************************)
(* Claims about run_interactive (checked under SpecInteractive).           *)
(***************************************************************************)
\* the step ends with a model call that failed
ModelCallFailed ==
    /\ events' # events
    /\ events' # <<>>
    /\ ~events'[Len(events')].ok

\* the step ends with an exception, other than the user's interrupt, in a
\* handler of the session
ErrorCaught == raised' \notin {"", "KeyboardInterrupt"}

\* C14: in the interactive loop every failure of the model collaborator and
\* every other error of generating a file or a project is caught and
\* reported, and the session is back at its prompt; the loop ends only on an
\* exit word or on a keyboard interrupt.
C14_ErrorsKeepTheSession ==
    [][call = "run_interactive" =>
          /\ ModelCallFailed => raised' = "RuntimeError"
          /\ ErrorCaught =>
                /\ pc' = "prompt"
                /\ printed' # <<>>
                /\ endswith(printed'[Len(printed')], "Error: " \o raised')
                   \/ endswith(printed'[Len(printed')], "Error generando proyecto: " \o raised')
          /\ (pc # "ended" /\ pc' = "ended") =>
                \/ raised' = "KeyboardInterrupt"
                \/ pc = "prompt" /\ raised' = "" /\ printed' = <<Bye>>]_vars

\* a session back at its prompt after the model failed on the second file of
\* a project, the first file being on disk
C14_Witness ==
    /\ call = "run_interactive"
    /\ pc = "prompt"
    /\ raised = "RuntimeError"
    /\ \E k \in FailedCalls : events[k].of = "file" /\ events[k].n = 2
    /\ DOMAIN disk # {}

(***************************************************************************)
(* Claim about the result of _clean_generated_code (checked under          *)
(* SpecClean).                                                             *)
(***************************************************************************)
\* C15: for every raw text and language tag, the text returned by
\* _clean_generated_code contains no triple-backtick sequence and has no
\* leading or trailing whitespace; the removal of echo lines and the syntax
\* repair never join fragments into a new triple-backtick marker.
C15_NoFenceNoMargin ==
    Returned("_clean_generated_code") =>
       \A n \in 1..Len(ret) :
          /\ Occurrences(ret[n], FENCE) = {}
          /\ Ch(ret[n], 1) \notin Whitespace
          /\ Ch(ret[n], Len(ret[n])) \notin Whitespace

====
